---- MODULE Spec2Model ----
(***************************************************************************)
(* A model of sevenn/util.py: the running-average accumulator and its      *)
(* distributed reduce, the output postprocessor and its per-label split,   *)
(* the checkpoint loader with its legacy key remapping, the irreps-output  *)
(* inference and the batch-to-list splitter.                               *)
(*                                                                         *)
(* Each component is a state machine of its own (SpecAvg, SpecPost, ...)   *)
(* over its own variables; the variables of the other components are left  *)
(* unchanged.  Floating-point values are modelled by exact integers and    *)
(* exact quotients [num, den].                                             *)
(***************************************************************************)
EXTENDS Integers, Sequences, FiniteSets, TLC

\* ---- state of AverageNumber, one instance per cooperating process
VARIABLES self_sum, self_count, t_sum, t_count, avg_pc, rounds, target,
          joined, nUpdates, ingested, lastGet, pre, got

avgVars == <<self_sum, self_count, t_sum, t_count, avg_pc, rounds, target,
             joined, nUpdates, ingested, lastGet, pre, got>>

\* ---- state of a call of postprocess_output_with_label
VARIABLES output, loss_types, results, labeled, post_pc, post_err,
          r_idx, idx, i_from, i_to, slices

postVars == <<output, loss_types, results, labeled, post_pc, post_err,
              r_idx, idx, i_from, i_to, slices>>

\* ---- state of a call of _map_old_model
VARIABLES old_model_state_dict, new_model_state_dict, map_i, map_pc

mapVars == <<old_model_state_dict, new_model_state_dict, map_i, map_pc>>

\* ---- state of a call of model_from_checkpoint
VARIABLES heap, arg_kind, caller_config, config, defaults, model_state_dict,
          model_keys, model_params, missing, not_used, attempts, warned,
          ck_pc, ck_err, ck_ret, config0

ckVars == <<heap, arg_kind, caller_config, config, defaults, model_state_dict,
            model_keys, model_params, missing, not_used, attempts, warned,
            ck_pc, ck_err, ck_ret, config0>>

\* ---- state of a call of infer_irreps_out
VARIABLES irreps_x, irreps_operand, drop_l, parity_mode, fix_multiplicity,
          same_object, irreps_out, new_irreps_elem, irr_i, irr_pc, irr_err,
          irr_ret

irrVars == <<irreps_x, irreps_operand, drop_l, parity_mode, fix_multiplicity,
             same_object, irreps_out, new_irreps_elem, irr_i, irr_pc, irr_err,
             irr_ret>>

\* ---- state of a call of to_atom_graph_list
VARIABLES atom_graph_batch, is_stress, data_list, atomic_energy_list,
          inferred_total_energy_list, inferred_force_list,
          inferred_stress_list, split_i, split_pc

splitVars == <<atom_graph_batch, is_stress, data_list, atomic_energy_list,
               inferred_total_energy_list, inferred_force_list,
               inferred_stress_list, split_i, split_pc>>

vars == <<avgVars, postVars, mapVars, ckVars, irrVars, splitVars>>

notAvg == <<postVars, mapVars, ckVars, irrVars, splitVars>>
notPost == <<avgVars, mapVars, ckVars, irrVars, splitVars>>
notMap == <<avgVars, postVars, ckVars, irrVars, splitVars>>
notCk == <<avgVars, postVars, mapVars, irrVars, splitVars>>
notIrr == <<avgVars, postVars, mapVars, ckVars, splitVars>>
notSplit == <<avgVars, postVars, mapVars, ckVars, irrVars>>

\* an absent value: a present value v is held as <<v>> (or as a tuple)
None == <<>>

RECURSIVE SumSeq(_)
SumSeq(s) == IF s = <<>> THEN 0 ELSE Head(s) + SumSeq(Tail(s))

RECURSIVE SumOver(_, _)
\* the sum of f[x] over the finite set S
SumOver(f, S) ==
    IF S = {} THEN 0
    ELSE LET x == CHOOSE y \in S : TRUE IN f[x] + SumOver(f, S \ {x})

SeqsUpTo(S, n) == UNION {[1..k -> S] : k \in 0..n}

\* ---- a Python dict: the sequence of its <<key, value>> items in insertion
\* order
DictHas(d, k) == \E i \in 1..Len(d) : d[i][1] = k
DictGet(d, k) == d[CHOOSE i \in 1..Len(d) : d[i][1] = k][2]
DictSet(d, k, v) ==
    IF DictHas(d, k)
    THEN [i \in 1..Len(d) |-> IF d[i][1] = k THEN <<k, v>> ELSE d[i]]
    ELSE Append(d, <<k, v>>)
DictKeys(d) == {d[i][1] : i \in 1..Len(d)}

Range(s) == {s[i] : i \in 1..Len(s)}
Min(a, b) == IF a < b THEN a ELSE b

\* the components that a specification does not run
IdleAvg ==
    /\ self_sum = None /\ self_count = None /\ t_sum = None /\ t_count = None
    /\ avg_pc = None /\ rounds = None /\ target = None /\ joined = None
    /\ nUpdates = None /\ ingested = None /\ lastGet = None /\ pre = None
    /\ got = None

IdlePost ==
    /\ output = None /\ loss_types = None /\ results = None /\ labeled = None
    /\ post_pc = None /\ post_err = None /\ r_idx = None /\ idx = None
    /\ i_from = None /\ i_to = None /\ slices = None

IdleMap ==
    /\ old_model_state_dict = None /\ new_model_state_dict = None
    /\ map_i = None /\ map_pc = None

IdleCk ==
    /\ heap = None /\ arg_kind = None /\ caller_config = None /\ config = None
    /\ defaults = None /\ model_state_dict = None /\ model_keys = None
    /\ model_params = None /\ missing = None /\ not_used = None
    /\ attempts = None /\ warned = None /\ ck_pc = None /\ ck_err = None
    /\ ck_ret = None /\ config0 = None

IdleIrr ==
    /\ irreps_x = None /\ irreps_operand = None /\ drop_l = None
    /\ parity_mode = None /\ fix_multiplicity = None /\ same_object = None
    /\ irreps_out = None /\ new_irreps_elem = None /\ irr_i = None
    /\ irr_pc = None /\ irr_err = None /\ irr_ret = None

IdleSplit ==
    /\ atom_graph_batch = None /\ is_stress = None /\ data_list = None
    /\ atomic_energy_list = None /\ inferred_total_energy_list = None
    /\ inferred_force_list = None /\ inferred_stress_list = None
    /\ split_i = None /\ split_pc = None

(***************************************************************************)
(* AverageNumber                                                           *)
(***************************************************************************)
NumProcs == 2
MaxRounds == 1
MaxBatchLen == 1
\* update calls in a run of the accumulators alone, and in a run with reduces
MaxUpdates == 3
MaxDdpUpdates == 1

Procs == 1..NumProcs
Values == {-1, 2}
Batches == SeqsUpTo(Values, MaxBatchLen)
\* the collectives of a run, in the order every process issues them:
\* two per _ddp_reduce call (the sum, then the count)
Ops == 1..(2 * MaxRounds)

\* numpy.nan
NaN == [nan |-> TRUE, num |-> 0, den |-> 0]

\* the float num/den
Quotient(n, d) == [nan |-> FALSE, num |-> n, den |-> d]

\* a faulty get, for comparison: the division without the guard on the count
GetValueUnguarded(s, c) == Quotient(s, c)

\* AverageNumber.get
GetValue(s, c) == IF c = 0 THEN NaN ELSE Quotient(s, c)

\* a faulty reduce, for comparison: every process receives the value of rank 1
AllReduceBroadcast(contrib) == contrib[1][1]

\* torch.distributed.all_reduce(op=SUM) over the values contributed to one
\* collective
AllReduceSum(contrib) == SumOver([q \in Procs |-> contrib[q][1]], Procs)

\* a collective returns in a process only once every process of the group
\* has entered it
CollectiveReady(n) == \A q \in Procs : joined[n][q] # None

InitAvg ==
    /\ self_sum = [p \in Procs |-> 0]
    /\ self_count = [p \in Procs |-> 0]
    /\ t_sum = [p \in Procs |-> 0]
    /\ t_count = [p \in Procs |-> 0]
    /\ avg_pc = [p \in Procs |-> "idle"]
    /\ rounds = [p \in Procs |-> 0]
    /\ target \in [Procs -> 0..MaxRounds]
    /\ joined = [n \in Ops |-> [p \in Procs |-> None]]
    /\ nUpdates = 0
    /\ ingested = [p \in Procs |-> <<>>]
    /\ lastGet = [p \in Procs |-> None]
    /\ pre = [r \in 1..MaxRounds |-> [p \in Procs |-> None]]
    /\ got = [r \in 1..MaxRounds |-> [p \in Procs |-> None]]

update(p, values) ==
    /\ avg_pc[p] = "idle"
    /\ self_sum' = [self_sum EXCEPT ![p] = @ + SumSeq(values)]
    /\ self_count' = [self_count EXCEPT ![p] = @ + Len(values)]
    /\ nUpdates' = nUpdates + 1
    /\ ingested' = [ingested EXCEPT ![p] = @ \o values]
    /\ UNCHANGED <<t_sum, t_count, avg_pc, rounds, target, joined, lastGet,
                   pre, got>>
    /\ UNCHANGED notAvg

get(p) ==
    /\ avg_pc[p] = "idle"
    /\ lastGet' = [lastGet EXCEPT ![p] = <<GetValue(self_sum[p], self_count[p])>>]
    /\ UNCHANGED <<self_sum, self_count, t_sum, t_count, avg_pc, rounds,
                   target, joined, nUpdates, ingested, pre, got>>
    /\ UNCHANGED notAvg

\* _ddp_reduce, up to blocking in the first all_reduce
ddp_reduce_begin(p) ==
    /\ avg_pc[p] = "idle"
    /\ rounds[p] < target[p]
    /\ t_sum' = [t_sum EXCEPT ![p] = self_sum[p]]
    /\ t_count' = [t_count EXCEPT ![p] = self_count[p]]
    /\ joined' = [joined EXCEPT ![2 * rounds[p] + 1][p] = <<self_sum[p]>>]
    /\ pre' = [pre EXCEPT ![rounds[p] + 1][p] = <<self_sum[p], self_count[p]>>]
    /\ avg_pc' = [avg_pc EXCEPT ![p] = "all_reduce_sum"]
    /\ UNCHANGED <<self_sum, self_count, rounds, target, nUpdates, ingested,
                   lastGet, got>>
    /\ UNCHANGED notAvg

\* the first all_reduce returns; the process enters the second one
ddp_reduce_sum_done(p) ==
    LET n == 2 * rounds[p] + 1 IN
    /\ avg_pc[p] = "all_reduce_sum"
    /\ CollectiveReady(n)
    /\ t_sum' = [t_sum EXCEPT ![p] = AllReduceSum(joined[n])]
    /\ joined' = [joined EXCEPT ![n + 1][p] = <<t_count[p]>>]
    /\ avg_pc' = [avg_pc EXCEPT ![p] = "all_reduce_count"]
    /\ UNCHANGED <<self_sum, self_count, t_count, rounds, target, nUpdates,
                   ingested, lastGet, pre, got>>
    /\ UNCHANGED notAvg

\* the second all_reduce returns
ddp_reduce_count_done(p) ==
    LET n == 2 * rounds[p] + 2 IN
    /\ avg_pc[p] = "all_reduce_count"
    /\ CollectiveReady(n)
    /\ t_count' = [t_count EXCEPT ![p] = AllReduceSum(joined[n])]
    /\ avg_pc' = [avg_pc EXCEPT ![p] = "store"]
    /\ UNCHANGED <<self_sum, self_count, t_sum, rounds, target, joined,
                   nUpdates, ingested, lastGet, pre, got>>
    /\ UNCHANGED notAvg

\* the reduced tensors are stored in the object and the call returns
ddp_reduce_store(p) ==
    /\ avg_pc[p] = "store"
    /\ self_sum' = [self_sum EXCEPT ![p] = t_sum[p]]
    /\ self_count' = [self_count EXCEPT ![p] = t_count[p]]
    /\ got' = [got EXCEPT ![rounds[p] + 1][p] =
                                   <<self_sum'[p], self_count'[p]>>]
    /\ rounds' = [rounds EXCEPT ![p] = @ + 1]
    /\ avg_pc' = [avg_pc EXCEPT ![p] = "idle"]
    /\ UNCHANGED <<t_sum, t_count, target, joined, nUpdates, ingested,
                   lastGet, pre>>
    /\ UNCHANGED notAvg

ReduceStep(p) ==
    \/ ddp_reduce_begin(p)
    \/ ddp_reduce_sum_done(p)
    \/ ddp_reduce_count_done(p)
    \/ ddp_reduce_store(p)

\* the accumulator of one process, used on its own
NextAvg ==
    \/ \E values \in Batches : nUpdates < MaxUpdates /\ update(1, values)
    \/ get(1)

\* the initial states: AverageNumber runs, the other components stay idle
StartAvg ==
    InitAvg /\ IdlePost /\ IdleMap /\ IdleCk /\ IdleIrr /\ IdleSplit

SpecAvg ==
    StartAvg /\ [][NextAvg]_vars

\* the processes update their accumulators and reduce them
NextDdp ==
    \/ \E p \in Procs, values \in Batches :
          nUpdates < MaxDdpUpdates /\ update(p, values)
    \/ \E p \in Procs : ddp_reduce_begin(p)
    \/ \E p \in Procs : ddp_reduce_sum_done(p)
    \/ \E p \in Procs : ddp_reduce_count_done(p)
    \/ \E p \in Procs : ddp_reduce_store(p)

\* every process runs on: a call of _ddp_reduce that can take a step takes it
SpecDdp ==
    StartAvg /\ [][NextDdp]_vars /\ \A p \in Procs : WF_vars(ReduceStep(p))

\* ---- C6
\* after any sequence of update calls on one process the running sum is the
\* sum of the ingested values and the running count is their number
SumAndCountOfIngested ==
    /\ self_sum[1] = SumSeq(ingested[1])
    /\ self_count[1] = Len(ingested[1])

\* a step that sets the result of get(): the result is nan when nothing was
\* ingested and the mean of the ingested values otherwise, and the step
\* changes nothing of the accumulator
GetReturnsMean ==
    lastGet'[1] # lastGet[1] =>
        /\ IF Len(ingested[1]) = 0
           THEN lastGet'[1] = <<NaN>>
           ELSE /\ lastGet'[1][1].nan = FALSE
                /\ lastGet'[1][1].den # 0
                /\ lastGet'[1][1].num * Len(ingested[1])
                     = SumSeq(ingested[1]) * lastGet'[1][1].den
        /\ UNCHANGED <<self_sum, self_count, ingested>>

\* C6: the running sum and count are those of the ingested values; get()
\* returns their mean, or nan when the count is 0, and changes no state
C6_RunningMean == []SumAndCountOfIngested /\ [][GetReturnsMean]_vars

\* get() returned a mean after several updates, one of them of an empty batch
C6_Witness ==
    /\ nUpdates >= 2
    /\ Len(ingested[1]) >= 1
    /\ Len(ingested[1]) < nUpdates
    /\ lastGet[1] = <<Quotient(self_sum[1], self_count[1])>>

\* ---- C5
Completed(r, p) == got[r][p] # None
Called(r, p) == pre[r][p] # None

\* a process that completed its r-th reduce holds the totals, over all
\* processes, of the sums and counts held when the r-th reduce was called
ReduceGivesTotals ==
    \A r \in 1..MaxRounds, p \in Procs :
        Completed(r, p) =>
            /\ \A q \in Procs : Called(r, q)
            /\ got[r][p] = <<SumOver([q \in Procs |-> pre[r][q][1]], Procs),
                             SumOver([q \in Procs |-> pre[r][q][2]], Procs)>>

\* if some participant never makes its r-th call, no process completes its
\* r-th call
ReduceBlocksWithoutAll ==
    \A r \in 1..MaxRounds :
        (\E q \in Procs : target[q] < r) => \A p \in Procs : ~Completed(r, p)

\* if every process makes the same number of calls, every call completes
ReduceCompletes ==
    (\A p, q \in Procs : target[p] = target[q])
        => <>(\A p \in Procs : rounds[p] = target[p] /\ avg_pc[p] = "idle")

\* C5: the distributed reduce is a blocking collective: called by every
\* process it completes everywhere with the totals of all processes; if a
\* participant never calls it no caller completes
C5_BlockingCollective ==
    []ReduceGivesTotals /\ []ReduceBlocksWithoutAll /\ ReduceCompletes

\* every process completed a reduce of accumulators that had ingested values
C5_Witness ==
    /\ \A p \in Procs : Completed(1, p) /\ self_count[p] > 0
    /\ \E p \in Procs : pre[1][p][2] = 0

(***************************************************************************)
(* postprocess_output and postprocess_output_with_label                    *)
(***************************************************************************)
MaxStructs == 2
MaxAtoms == 2
MaxLossTypes == 2

\* sevenn._const.LossType, and a value that is no loss type
ENERGY == "LossType.ENERGY"
FORCE == "LossType.FORCE"
STRESS == "LossType.STRESS"
UNKNOWN_TYPE == "other"
LossTypes == {ENERGY, FORCE, STRESS}
\* the key KEY.NUM_ATOMS of the output mapping: a string, no LossType member
KEY_NUM_ATOMS == "num_atoms"
Labels == {"a", "b"}

RECURSIVE Flatten(_)
\* torch.reshape(t, (-1,)) of a 2-D tensor held as a sequence of rows
Flatten(rows) == IF rows = <<>> THEN <<>> ELSE Head(rows) \o Flatten(Tail(rows))

\* t[a:b] of a 1-D tensor, for 0 <= a <= b (Python clamps the bounds)
Slice(t, a, b) == SubSeq(t, Min(a, Len(t)) + 1, Min(b, Len(t)))

\* x * TO_KB, TO_KB = 1602.1766208
TimesToKB(x) == [value |-> x, times |-> "1602.1766208"]

\* the model output for structures of the given atom counts and labels: every
\* entry of every tensor is a value of its own
MakeOutput(na, lab) ==
    LET k == Len(na)
        total == SumSeq(na) IN
    [num_atoms |-> na,
     user_label |-> lab,
     pred_total_energy |-> [i \in 1..k |-> 100 + i],
     energy |-> [i \in 1..k |-> 200 + i],
     pred_force |-> [j \in 1..total |-> [c \in 1..3 |-> 1000 + 10 * j + c]],
     force |-> [j \in 1..total |-> [c \in 1..3 |-> 2000 + 10 * j + c]],
     pred_stress |-> [i \in 1..k |-> [c \in 1..6 |-> 3000 + 10 * i + c]],
     stress |-> [i \in 1..k |-> [c \in 1..6 |-> 4000 + 10 * i + c]]]

\* one loss type of postprocess_output: <<pred, ref, vdim>>
PostprocessOne(out, loss_type) ==
    CASE loss_type = ENERGY ->
           <<[i \in 1..Len(out.pred_total_energy) |->
                 Quotient(out.pred_total_energy[i], out.num_atoms[i])],
             [i \in 1..Len(out.energy) |->
                 Quotient(out.energy[i], out.num_atoms[i])],
             1>>
      [] loss_type = FORCE ->
           <<Flatten(out.pred_force), Flatten(out.force), 3>>
      [] loss_type = STRESS ->
           <<Flatten([i \in 1..Len(out.pred_stress) |->
                         [c \in 1..6 |-> TimesToKB(out.pred_stress[i][c])]]),
             Flatten([i \in 1..Len(out.stress) |->
                         [c \in 1..6 |-> TimesToKB(out.stress[i][c])]]),
             6>>

RECURSIVE PostprocessFrom(_, _, _)
PostprocessFrom(out, lts, res) ==
    IF lts = <<>> THEN [err |-> None, results |-> res]
    ELSE IF Head(lts) \notin LossTypes
         THEN [err |-> <<"ValueError", Head(lts)>>, results |-> <<>>]
         ELSE PostprocessFrom(out, Tail(lts),
                  DictSet(res, Head(lts), PostprocessOne(out, Head(lts))))

\* postprocess_output: the results dict, or the error raised
postprocess_output(out, lts) == PostprocessFrom(out, lts, <<>>)

\* results[key] of postprocess_output_with_label
ResultsLookup(res, key) ==
    IF DictHas(res, key)
    THEN [err |-> None, value |-> DictGet(res, key)]
    ELSE [err |-> <<"KeyError", key>>, value |-> None]

InitPost ==
    /\ \E na \in SeqsUpTo(1..MaxAtoms, MaxStructs) :
         \E lab \in [1..Len(na) -> Labels] : output = MakeOutput(na, lab)
    /\ loss_types \in SeqsUpTo(LossTypes \cup {UNKNOWN_TYPE}, MaxLossTypes)
    /\ results = <<>>
    /\ labeled = <<>>
    /\ post_pc = "call"
    /\ post_err = None
    /\ r_idx = 0
    /\ idx = 0
    /\ i_from = 0
    /\ i_to = None
    /\ slices = <<>>

\* results = postprocess_output(...); labeled = {k: {} for k in label_set}
with_label_call ==
    LET r == postprocess_output(output, loss_types) IN
    /\ post_pc = "call"
    /\ IF r.err # None
       THEN /\ post_pc' = "error"
            /\ post_err' = r.err
            /\ UNCHANGED <<results, labeled, r_idx>>
       ELSE /\ results' = r.results
            /\ labeled' = [l \in Range(output.user_label) |-> <<>>]
            /\ r_idx' = 1
            /\ post_pc' = "for_loss_type"
            /\ UNCHANGED post_err
    /\ UNCHANGED <<output, loss_types, idx, i_from, i_to, slices>>
    /\ UNCHANGED notPost

\* for loss_type, (pred, ref, vdim) in results.items(): i_from = 0
for_loss_type ==
    /\ post_pc = "for_loss_type"
    /\ r_idx <= Len(results)
    /\ i_from' = 0
    /\ i_to' = None
    /\ idx' = 1
    /\ post_pc' = "for_label"
    /\ UNCHANGED <<output, loss_types, results, labeled, post_err, r_idx,
                   slices>>
    /\ UNCHANGED notPost

\* one pass of the body of: for idx, label in enumerate(batched_label)
\* (idx counts from 1 here)
for_label ==
    LET loss_type == results[r_idx][1]
        pred == results[r_idx][2][1]
        ref == results[r_idx][2][2]
        vdim == results[r_idx][2][3]
        label == output.user_label[idx]
        na == ResultsLookup(results, KEY_NUM_ATOMS) IN
    /\ post_pc = "for_label"
    /\ idx <= Len(output.user_label)
    /\ IF loss_type = FORCE /\ na.err # None
       THEN /\ post_pc' = "error"
            /\ post_err' = na.err
            /\ UNCHANGED <<labeled, idx, i_from, i_to, slices>>
       ELSE LET to == IF loss_type = FORCE
                      THEN i_from + vdim * na.value[idx]
                      ELSE i_from + vdim IN
            /\ i_to' = <<to>>
            /\ labeled' = [labeled EXCEPT ![label] =
                   DictSet(@, loss_type,
                           <<Slice(pred, i_from, to), Slice(ref, i_from, to)>>)]
            /\ slices' = Append(slices, <<loss_type, idx, i_from, to>>)
            /\ i_from' = to
            /\ idx' = idx + 1
            /\ UNCHANGED <<post_pc, post_err>>
    /\ UNCHANGED <<output, loss_types, results, r_idx>>
    /\ UNCHANGED notPost

\* the labels are exhausted: on to the next loss type
end_for_label ==
    /\ post_pc = "for_label"
    /\ idx > Len(output.user_label)
    /\ r_idx' = r_idx + 1
    /\ post_pc' = "for_loss_type"
    /\ UNCHANGED <<output, loss_types, results, labeled, post_err, idx,
                   i_from, i_to, slices>>
    /\ UNCHANGED notPost

\* return labeled
return_labeled ==
    /\ post_pc = "for_loss_type"
    /\ r_idx > Len(results)
    /\ post_pc' = "done"
    /\ UNCHANGED <<output, loss_types, results, labeled, post_err, r_idx,
                   idx, i_from, i_to, slices>>
    /\ UNCHANGED notPost

NextPost ==
    \/ with_label_call
    \/ for_loss_type
    \/ for_label
    \/ end_for_label
    \/ return_labeled

\* the initial states: postprocess_output_with_label runs, the other components stay idle
StartPost ==
    InitPost /\ IdleAvg /\ IdleMap /\ IdleCk /\ IdleIrr /\ IdleSplit

SpecPost ==
    StartPost /\ [][NextPost]_vars

\* ---- C1
RECURSIVE FirstOccurrences(_, _)
\* the distinct labels of the batch, in batch order
FirstOccurrences(labs, seen) ==
    IF labs = <<>> THEN <<>>
    ELSE IF Head(labs) \in seen THEN FirstOccurrences(Tail(labs), seen)
         ELSE <<Head(labs)>> \o FirstOccurrences(Tail(labs), seen \cup {Head(labs)})

RECURSIVE ConcatStored(_, _, _)
\* the slices stored for a loss type under the given labels, concatenated
\* (which = 1: pred, 2: ref)
ConcatStored(labs, loss_type, which) ==
    IF labs = <<>> THEN <<>>
    ELSE (IF DictHas(labeled[Head(labs)], loss_type)
          THEN DictGet(labeled[Head(labs)], loss_type)[which]
          ELSE <<>>)
         \o ConcatStored(Tail(labs), loss_type, which)

\* C1: when the call returns, for every requested loss type the slices
\* stored under the labels, concatenated in batch order, are the flat pred
\* and ref arrays of postprocess_output
C1_LabelSlicesTile ==
    post_pc = "done" =>
        \A i \in 1..Len(results) :
            LET labs == FirstOccurrences(output.user_label, {}) IN
            /\ ConcatStored(labs, results[i][1], 1) = results[i][2][1]
            /\ ConcatStored(labs, results[i][1], 2) = results[i][2][2]

\* ---- C2
AtomsBefore(i) == SumSeq(SubSeq(output.num_atoms, 1, i - 1))
PostTerminated == post_pc \in {"done", "error"}

\* every slice taken so far starts where the claim says it starts
CursorAsClaimed ==
    \A i \in 1..Len(slices) :
        LET loss_type == slices[i][1]
            n == slices[i][2]
            vdim == CASE loss_type = ENERGY -> 1
                      [] loss_type = FORCE -> 3
                      [] loss_type = STRESS -> 6 IN
        IF loss_type = FORCE
        THEN /\ slices[i][3] = 3 * AtomsBefore(n)
             /\ slices[i][4] = 3 * AtomsBefore(n + 1)
        ELSE /\ slices[i][3] = vdim * (n - 1)
             /\ slices[i][4] = vdim * n

\* C2: the cursor advances by 3 x atom count for FORCE and by the
\* dimensionality otherwise; a call on a non-empty batch with FORCE requested
\* completes, having sliced [3*sum(a_0..a_{idx-1}), 3*sum(a_0..a_idx)) for
\* every structure
C2_CursorStrides ==
    /\ CursorAsClaimed
    /\ (/\ PostTerminated
        /\ Range(loss_types) \subseteq LossTypes
        /\ FORCE \in Range(loss_types)
        /\ Len(output.num_atoms) > 0)
       => /\ post_pc = "done"
          /\ \A n \in 1..Len(output.num_atoms) :
                <<FORCE, n, 3 * AtomsBefore(n), 3 * AtomsBefore(n + 1)>>
                    \in Range(slices)

(***************************************************************************)
(* _map_old_model                                                          *)
(*                                                                         *)
(* A parameter key is held as the sequence of its dotted components,       *)
(* k.split('.'); '.'.join is the inverse.                                  *)
(***************************************************************************)
MaxDictLen == 2

\* _old_module_name_mapping: the four fixed names and, for i in range(10),
\* the four numbered names
OldFixedNames ==
    [n \in {"EdgeEmbedding", "reducing nn input to hidden",
            "reducing nn hidden to energy", "rescale atomic energy"} |->
        CASE n = "EdgeEmbedding" -> "edge_embedding"
          [] n = "reducing nn input to hidden" -> "reduce_input_to_hidden"
          [] n = "reducing nn hidden to energy" -> "reduce_hidden_to_energy"
          [] n = "rescale atomic energy" -> "rescale_atomic_energy"]

OldNumberedSuffixes ==
    [n \in {" self connection intro", " convolution", " self interaction 2",
            " equivariant gate"} |->
        CASE n = " self connection intro" -> "_self_connection_intro"
          [] n = " convolution" -> "_convolution"
          [] n = " self interaction 2" -> "_self_interaction_2"
          [] n = " equivariant gate" -> "_equivariant_gate"]

OldNumberedNames ==
    {<<ToString(i) \o n, ToString(i) \o OldNumberedSuffixes[n]>> :
        i \in 0..9, n \in DOMAIN OldNumberedSuffixes}

OldModuleNames ==
    DOMAIN OldFixedNames \cup {pair[1] : pair \in OldNumberedNames}

old_module_name_mapping(name) ==
    IF name \in DOMAIN OldFixedNames THEN OldFixedNames[name]
    ELSE (CHOOSE pair \in OldNumberedNames : pair[1] = name)[2]

\* 'denumerator' in c, for a component c of a key
HasDenumerator(c) == c \in {"denumerator", "denumerator_shift"}

\* c.replace('denumerator', 'denominator')
ReplaceDenumerator(c) ==
    CASE c = "denumerator" -> "denominator"
      [] c = "denumerator_shift" -> "denominator_shift"
      [] OTHER -> c

\* a faulty remap, for comparison: the follower is kept as it is spelt
MapKeyKeepsSpelling(k) ==
    IF Head(k) \in OldModuleNames
    THEN <<old_module_name_mapping(Head(k))>>
             \o (IF Tail(k) = <<>> THEN <<"">> ELSE Tail(k))
    ELSE k

\* the key under which _map_old_model stores the value of key k
MapKey(k) ==
    LET key_name == Head(k)
        rest == Tail(k)
        \* follower = '.'.join(k.split('.')[1:]), with the spelling replaced
        follower == IF rest = <<>> THEN <<"">>
                    ELSE [i \in 1..Len(rest) |-> ReplaceDenumerator(rest[i])] IN
    IF key_name \in OldModuleNames
    THEN <<old_module_name_mapping(key_name)>> \o follower
    ELSE k

RECURSIVE MapItems(_, _)
MapItems(items, new) ==
    IF items = <<>> THEN new
    ELSE MapItems(Tail(items), DictSet(new, MapKey(Head(items)[1]), Head(items)[2]))

\* _map_old_model, as one call
MapOldModel(old) == MapItems(old, <<>>)

\* parameter keys given to _map_old_model
MapKeyNames == {"EdgeEmbedding", "edge_embedding", "0 convolution",
                "0_convolution", "9 equivariant gate", "10 convolution"}
MapFollowers == {<<>>, <<"weight">>, <<"denumerator">>,
                 <<"layer", "denumerator_shift">>}
MapKeys == {<<n>> \o f : n \in MapKeyNames, f \in MapFollowers}
           \cup {<<"denumerator", "weight">>}

\* the dicts with distinct keys from K, of at most n items; the value of the
\* i-th item is i
DictsOver(K, n) ==
    {[i \in 1..Len(ks) |-> <<ks[i], i>>] :
        ks \in {s \in SeqsUpTo(K, n) :
                   \A i, j \in 1..Len(s) : i # j => s[i] # s[j]}}

InitMap ==
    /\ old_model_state_dict \in DictsOver(MapKeys, MaxDictLen)
    /\ new_model_state_dict = <<>>
    /\ map_i = 1
    /\ map_pc = "for_item"

\* one pass of: for k, v in old_model_state_dict.items()
map_item ==
    /\ map_pc = "for_item"
    /\ map_i <= Len(old_model_state_dict)
    /\ new_model_state_dict' =
           DictSet(new_model_state_dict,
                   MapKey(old_model_state_dict[map_i][1]),
                   old_model_state_dict[map_i][2])
    /\ map_i' = map_i + 1
    /\ UNCHANGED <<old_model_state_dict, map_pc>>
    /\ UNCHANGED notMap

\* return new_model_state_dict
map_return ==
    /\ map_pc = "for_item"
    /\ map_i > Len(old_model_state_dict)
    /\ map_pc' = "done"
    /\ UNCHANGED <<old_model_state_dict, new_model_state_dict, map_i>>
    /\ UNCHANGED notMap

NextMap == map_item \/ map_return

\* the initial states: _map_old_model runs, the other components stay idle
StartMap ==
    InitMap /\ IdleAvg /\ IdlePost /\ IdleCk /\ IdleIrr /\ IdleSplit

SpecMap ==
    StartMap /\ [][NextMap]_vars

(***************************************************************************)
(* model_from_checkpoint                                                   *)
(*                                                                         *)
(* Dicts are objects of a heap, named by their identity; a config value is *)
(* <<"bool", v>>, <<"str", v>>, <<"int", v>>, <<"ref", id>> (a nested      *)
(* dict) or <<"tensor", v, device>>.                                       *)
(***************************************************************************)
MaxStateKeys == 2

OPTIMIZE_BY_REDUCE == "optimize_by_reduce"
CUTOFF_FUNCTION == "cutoff_function"
CUTOFF_FUNCTION_NAME == "cutoff_function_name"
SELF_CONNECTION_TYPE == "self_connection_type"
SHIFT == "shift"
EPOCH == "epoch"

\* the identities of the dict objects
ID_MODEL_DEFAULTS == "DEFAULT_E3_EQUIVARIANT_MODEL_CONFIG"
ID_DATA_DEFAULTS == "DEFAULT_DATA_CONFIG"
ID_TRAINING_DEFAULTS == "DEFAULT_TRAINING_CONFIG"
ID_DEFAULT_CUTOFF == "DEFAULT cutoff_function"
ID_CKPT_CONFIG == "checkpoint['config']"
ID_CKPT_CUTOFF == "checkpoint['config']['cutoff_function']"
ID_DEFAULTS == "defaults"

\* the static defaults tables of sevenn._const
StaticDefaults ==
    (ID_MODEL_DEFAULTS :>
        <<<<CUTOFF_FUNCTION, <<"ref", ID_DEFAULT_CUTOFF>>>>,
          <<SELF_CONNECTION_TYPE, <<"str", "nequip">>>>,
          <<OPTIMIZE_BY_REDUCE, <<"bool", "True">>>>>>)
    @@ (ID_DEFAULT_CUTOFF :>
        <<<<CUTOFF_FUNCTION_NAME, <<"str", "poly_cut">>>>>>)
    @@ (ID_DATA_DEFAULTS :> <<<<SHIFT, <<"str", "per_atom_energy_mean">>>>>>)
    @@ (ID_TRAINING_DEFAULTS :> <<<<EPOCH, <<"int", "300">>>>>>)

RECURSIVE DictUpdate(_, _)
\* {**d, **e}
DictUpdate(d, e) ==
    IF e = <<>> THEN d
    ELSE DictUpdate(DictSet(d, Head(e)[1], Head(e)[2]), Tail(e))

\* defaults = {**MODEL, **DATA, **TRAINING}
MergedDefaults(h) ==
    DictUpdate(DictUpdate(h[ID_MODEL_DEFAULTS], h[ID_DATA_DEFAULTS]),
               h[ID_TRAINING_DEFAULTS])

RECURSIVE FillDefaults(_, _)
\* for k, v in defaults.items(): if k not in config: config[k] = v
FillDefaults(cfg, dflt) ==
    IF dflt = <<>> THEN cfg
    ELSE FillDefaults(IF DictHas(cfg, Head(dflt)[1]) THEN cfg
                      ELSE Append(cfg, Head(dflt)),
                      Tail(dflt))

\* v.cpu() for the tensors among the values
TensorsToCpu(cfg) ==
    [i \in 1..Len(cfg) |->
        IF cfg[i][2][1] = "tensor"
        THEN <<cfg[i][1], <<"tensor", cfg[i][2][2], "cpu">>>>
        ELSE cfg[i]]

\* the condition on the cutoff function and the self-connection type
IsXplorWithMace(h, cfg) ==
    /\ DictGet(h[DictGet(cfg, CUTOFF_FUNCTION)[2]], CUTOFF_FUNCTION_NAME)
           = <<"str", "XPLOR">>
    /\ DictGet(cfg, SELF_CONNECTION_TYPE) = <<"str", "MACE">>

\* model.load_state_dict(sd, strict=False): (missing, unexpected)
LoadMissing(mkeys, sd) == mkeys \ DictKeys(sd)
LoadUnexpected(mkeys, sd) == DictKeys(sd) \ mkeys
LoadParams(params, sd) ==
    [k \in DOMAIN params |-> IF DictHas(sd, k) THEN <<DictGet(sd, k)>> ELSE params[k]]

\* ---- the checkpoints and models of the runs
CkptConfigs ==
    {o1 \o o2 \o o3 \o o4 :
        o1 \in {<<>>, <<<<OPTIMIZE_BY_REDUCE, <<"bool", "True">>>>>>,
                <<<<OPTIMIZE_BY_REDUCE, <<"bool", "False">>>>>>},
        o2 \in {<<>>, <<<<CUTOFF_FUNCTION, <<"ref", ID_CKPT_CUTOFF>>>>>>},
        o3 \in {<<>>, <<<<SELF_CONNECTION_TYPE, <<"str", "MACE">>>>>>,
                <<<<SELF_CONNECTION_TYPE, <<"str", "linear">>>>>>},
        o4 \in {<<>>, <<<<SHIFT, <<"tensor", "0.5", "cuda:0">>>>>>}}

ModelKeyUniverse == {<<"0_convolution", "denominator">>,
                     <<"edge_embedding", "weight">>}
CkptKeyUniverse == ModelKeyUniverse
                   \cup {<<"0 convolution", "denumerator">>,
                         <<"EdgeEmbedding", "weight">>,
                         <<"extra", "weight">>}

InitCk ==
    /\ arg_kind \in {"str", "dict", "other"}
    /\ config0 \in CkptConfigs
    /\ \E name \in {"XPLOR", "poly_cut"} :
         heap = (IF arg_kind = "dict" THEN (ID_CKPT_CONFIG :> config0)
                 ELSE <<>>)
                @@ (ID_CKPT_CUTOFF :>
                       <<<<CUTOFF_FUNCTION_NAME, <<"str", name>>>>>>)
                @@ StaticDefaults
    /\ caller_config = IF arg_kind = "dict" THEN <<ID_CKPT_CONFIG>> ELSE None
    /\ config = None
    /\ defaults = None
    /\ model_state_dict \in DictsOver(CkptKeyUniverse, MaxStateKeys)
    /\ model_keys \in SUBSET ModelKeyUniverse \ {{}}
    /\ model_params = <<>>
    /\ missing = {}
    /\ not_used = {}
    /\ attempts = <<>>
    /\ warned = {}
    /\ ck_pc = "check_type"
    /\ ck_err = None
    /\ ck_ret = None

\* isinstance checks; torch.load of a path makes a mapping of its own
ck_check_type ==
    /\ ck_pc = "check_type"
    /\ CASE arg_kind = "str" ->
              /\ heap' = (ID_CKPT_CONFIG :> config0) @@ heap
              /\ ck_pc' = "defaults"
              /\ UNCHANGED ck_err
         [] arg_kind = "dict" ->
              /\ ck_pc' = "defaults"
              /\ UNCHANGED <<heap, ck_err>>
         [] OTHER ->
              /\ ck_pc' = "error"
              /\ ck_err' = <<"ValueError", "checkpoint must be either str or dict">>
              /\ UNCHANGED heap
    /\ UNCHANGED <<arg_kind, caller_config, config, defaults, model_state_dict,
                   model_keys, model_params, missing, not_used, attempts,
                   warned, ck_ret, config0>>
    /\ UNCHANGED notCk

\* a faulty lookup, for comparison: config = dict(checkpoint['config']), a copy
ConfigCopied(h) ==
    [heap |-> ("copy of config" :> h[ID_CKPT_CONFIG]) @@ h,
     ref |-> "copy of config"]

\* config = checkpoint['config']: the local name refers to the mapping of the
\* checkpoint itself
ConfigOfCheckpoint(h) == [heap |-> h, ref |-> ID_CKPT_CONFIG]

\* defaults = {...}; config = checkpoint['config']
ck_defaults ==
    /\ ck_pc = "defaults"
    /\ heap' = (ID_DEFAULTS :> MergedDefaults(heap)) @@ ConfigOfCheckpoint(heap).heap
    /\ defaults' = <<ID_DEFAULTS>>
    /\ config' = <<ConfigOfCheckpoint(heap).ref>>
    /\ ck_pc' = "check_obsolete"
    /\ UNCHANGED <<arg_kind, caller_config, model_state_dict, model_keys,
                   model_params, missing, not_used, attempts, warned, ck_err,
                   ck_ret, config0>>
    /\ UNCHANGED notCk

\* if not config[KEY.OPTIMIZE_BY_REDUCE]: raise ValueError
ck_check_obsolete ==
    LET cfg == heap[config[1]] IN
    /\ ck_pc = "check_obsolete"
    /\ IF ~DictHas(cfg, OPTIMIZE_BY_REDUCE)
       THEN /\ ck_pc' = "error"
            /\ ck_err' = <<"KeyError", OPTIMIZE_BY_REDUCE>>
       ELSE IF DictGet(cfg, OPTIMIZE_BY_REDUCE) = <<"bool", "False">>
       THEN /\ ck_pc' = "error"
            /\ ck_err' = <<"ValueError", "This potential file is no longer supported">>
       ELSE /\ ck_pc' = "fill_defaults"
            /\ UNCHANGED ck_err
    /\ UNCHANGED <<heap, arg_kind, caller_config, config, defaults,
                   model_state_dict, model_keys, model_params, missing,
                   not_used, attempts, warned, ck_ret, config0>>
    /\ UNCHANGED notCk

\* the loop that fills the keys of defaults absent from config, with a warning
ck_fill_defaults ==
    LET cfg == heap[config[1]]
        dflt == heap[defaults[1]] IN
    /\ ck_pc = "fill_defaults"
    /\ heap' = [heap EXCEPT ![config[1]] = FillDefaults(cfg, dflt)]
    /\ warned' = warned \cup {<<"default", k>> : k \in DictKeys(dflt) \ DictKeys(cfg)}
    /\ ck_pc' = "to_cpu"
    /\ UNCHANGED <<arg_kind, caller_config, config, defaults, model_state_dict,
                   model_keys, model_params, missing, not_used, attempts,
                   ck_err, ck_ret, config0>>
    /\ UNCHANGED notCk

\* the loop that moves tensor values to the cpu
ck_to_cpu ==
    /\ ck_pc = "to_cpu"
    /\ heap' = [heap EXCEPT ![config[1]] = TensorsToCpu(@)]
    /\ ck_pc' = "fix_xplor"
    /\ UNCHANGED <<arg_kind, caller_config, config, defaults, model_state_dict,
                   model_keys, model_params, missing, not_used, attempts,
                   warned, ck_err, ck_ret, config0>>
    /\ UNCHANGED notCk

\* XPLOR with MACE: warn and set self_connection_type = 'linear'
ck_fix_xplor ==
    /\ ck_pc = "fix_xplor"
    /\ IF IsXplorWithMace(heap, heap[config[1]])
       THEN /\ warned' = warned \cup {<<"warn", "wrong cutoff function">>}
            /\ heap' = [heap EXCEPT ![config[1]] =
                           DictSet(@, SELF_CONNECTION_TYPE, <<"str", "linear">>)]
       ELSE UNCHANGED <<warned, heap>>
    /\ ck_pc' = "build"
    /\ UNCHANGED <<arg_kind, caller_config, config, defaults, model_state_dict,
                   model_keys, model_params, missing, not_used, attempts,
                   ck_err, ck_ret, config0>>
    /\ UNCHANGED notCk

\* model = build(config); missing, _ = model.load_state_dict(model_state_dict)
ck_build_and_load ==
    LET fresh == [k \in model_keys |-> None] IN
    /\ ck_pc = "build"
    /\ model_params' = LoadParams(fresh, model_state_dict)
    /\ missing' = LoadMissing(model_keys, model_state_dict)
    /\ attempts' = Append(attempts, model_state_dict)
    /\ ck_pc' = "check_missing"
    /\ UNCHANGED <<heap, arg_kind, caller_config, config, defaults,
                   model_state_dict, model_keys, not_used, warned, ck_err,
                   ck_ret, config0>>
    /\ UNCHANGED notCk

\* if len(missing) > 0: load again with the remapped keys
ck_remap_and_retry ==
    LET updated == MapOldModel(model_state_dict) IN
    /\ ck_pc = "check_missing"
    /\ missing # {}
    /\ model_params' = LoadParams(model_params, updated)
    /\ missing' = LoadMissing(model_keys, updated)
    /\ not_used' = LoadUnexpected(model_keys, updated)
    /\ attempts' = Append(attempts, updated)
    /\ warned' = IF not_used' # {}
                 THEN warned \cup {<<"warn", "Some keys are not used">>}
                 ELSE warned
    /\ ck_pc' = "assert"
    /\ UNCHANGED <<heap, arg_kind, caller_config, config, defaults,
                   model_state_dict, model_keys, ck_err, ck_ret, config0>>
    /\ UNCHANGED notCk

\* nothing is missing after the first load
ck_no_retry ==
    /\ ck_pc = "check_missing"
    /\ missing = {}
    /\ ck_pc' = "assert"
    /\ UNCHANGED <<heap, arg_kind, caller_config, config, defaults,
                   model_state_dict, model_keys, model_params, missing,
                   not_used, attempts, warned, ck_err, ck_ret, config0>>
    /\ UNCHANGED notCk

\* assert len(missing) == 0; return model, config
ck_assert_and_return ==
    /\ ck_pc = "assert"
    /\ IF missing = {}
       THEN /\ ck_ret' = <<model_params, config[1]>>
            /\ ck_pc' = "done"
            /\ UNCHANGED ck_err
       ELSE /\ ck_err' = <<"AssertionError", "Missing keys">>
            /\ ck_pc' = "error"
            /\ UNCHANGED ck_ret
    /\ UNCHANGED <<heap, arg_kind, caller_config, config, defaults,
                   model_state_dict, model_keys, model_params, missing,
                   not_used, attempts, warned, config0>>
    /\ UNCHANGED notCk

NextCk ==
    \/ ck_check_type
    \/ ck_defaults
    \/ ck_check_obsolete
    \/ ck_fill_defaults
    \/ ck_to_cpu
    \/ ck_fix_xplor
    \/ ck_build_and_load
    \/ ck_remap_and_retry
    \/ ck_no_retry
    \/ ck_assert_and_return

\* the initial states: model_from_checkpoint runs, the other components stay idle
StartCk ==
    InitCk /\ IdleAvg /\ IdlePost /\ IdleMap /\ IdleIrr /\ IdleSplit

SpecCk ==
    StartCk /\ [][NextCk]_vars

\* ---- C3
DefaultKeys == {CUTOFF_FUNCTION, SELF_CONNECTION_TYPE, OPTIMIZE_BY_REDUCE,
                SHIFT, EPOCH}
CkTerminated == ck_pc \in {"done", "error"}

\* the same value, wherever a tensor is held
SameValue(v, w) == v[1] = w[1] /\ v[2] = w[2]

\* C3: for every key k of the merged defaults, a checkpoint whose config
\* lacks k does not fail for the lack of it; the call warns and the resolved
\* config holds the default under k, and the keys the checkpoint has keep
\* their values
C3_DefaultsFilledWithoutFailing ==
    /\ \A k \in DefaultKeys :
          (arg_kind # "other" /\ ~DictHas(config0, k)) =>
              /\ ck_err # <<"KeyError", k>>
              /\ ck_pc = "done" =>
                    /\ <<"default", k>> \in warned
                    /\ DictGet(heap[ck_ret[2]], k)
                           = DictGet(MergedDefaults(StaticDefaults), k)
    /\ ck_pc = "done" =>
          \A k \in DictKeys(config0) :
              SameValue(DictGet(heap[ck_ret[2]], k), DictGet(config0, k))

\* ---- C4
\* the legacy name of a parameter key of the model
LegacyKeyOf(m) ==
    CASE m = <<"0_convolution", "denominator">> -> <<"0 convolution", "denumerator">>
      [] m = <<"edge_embedding", "weight">> -> <<"EdgeEmbedding", "weight">>

\* the checkpoint holds the parameters of the model, all under legacy names
LegacyOnlyCheckpoint ==
    /\ DictKeys(model_state_dict) = {LegacyKeyOf(m) : m \in model_keys}
    /\ \A m \in model_keys : LegacyKeyOf(m) # m

LastMissing == LoadMissing(model_keys, attempts[Len(attempts)])

\* C4: the first load is of the original keys; the remapped keys are loaded,
\* once, only if the first load reports missing keys; the call returns iff
\* the last load reports no missing key and fails otherwise; unused keys of
\* the remapped load only warn; a checkpoint in the legacy naming alone is
\* loaded, by the remapping, with no key missing
C4_LoadThenRemapOnce ==
    /\ Len(attempts) <= 2
    /\ Len(attempts) >= 1 => attempts[1] = model_state_dict
    /\ Len(attempts) = 2 =>
          /\ LoadMissing(model_keys, attempts[1]) # {}
          /\ \A i \in 1..Len(model_state_dict) :
                /\ Head(model_state_dict[i][1]) \notin OldModuleNames
                      => DictHas(attempts[2], model_state_dict[i][1])
                /\ Head(model_state_dict[i][1]) \in OldModuleNames
                      => ~DictHas(attempts[2], model_state_dict[i][1])
    /\ ck_pc = "done" => Len(attempts) >= 1 /\ LastMissing = {}
    /\ (CkTerminated /\ Len(attempts) >= 1) =>
          IF LastMissing = {}
          THEN /\ ck_pc = "done"
               /\ \A m \in model_keys : ck_ret[1][m] # None
               /\ not_used # {} => <<"warn", "Some keys are not used">> \in warned
          ELSE /\ ck_pc = "error"
               /\ ck_err[1] = "AssertionError"
    /\ (CkTerminated /\ Len(attempts) >= 1 /\ LegacyOnlyCheckpoint) =>
          /\ ck_pc = "done"
          /\ Len(attempts) = 2

\* a model of two parameters is loaded from a checkpoint in the legacy naming
C4_Witness ==
    /\ ck_pc = "done"
    /\ LegacyOnlyCheckpoint
    /\ Cardinality(model_keys) = 2
    /\ Len(attempts) = 2

\* ---- C10
PastDefaultFill ==
    \/ ck_pc \in {"to_cpu", "fix_xplor", "build", "check_missing", "assert", "done"}
    \/ ck_pc = "error" /\ ck_err[1] = "AssertionError"
PastXplorFix ==
    \/ ck_pc \in {"build", "check_missing", "assert", "done"}
    \/ ck_pc = "error" /\ ck_err[1] = "AssertionError"

\* the checkpoint was saved with XPLOR and MACE
SavedXplorWithMace ==
    /\ DictHas(config0, CUTOFF_FUNCTION)
    /\ heap[ID_CKPT_CUTOFF] = <<<<CUTOFF_FUNCTION_NAME, <<"str", "XPLOR">>>>>>
    /\ DictHas(config0, SELF_CONNECTION_TYPE)
    /\ DictGet(config0, SELF_CONNECTION_TYPE) = <<"str", "MACE">>

\* C10: given a mapping, the call resolves the caller's own config mapping:
\* it is the config returned, and once the obsolete-mode check is passed it
\* holds the defaults of the keys it lacked and, for XPLOR with MACE,
\* self_connection_type 'linear', also when the call ends in the missing-keys
\* error; the static defaults tables are never modified
C10_ConfigResolvedInPlace ==
    /\ arg_kind = "dict" =>
          /\ ck_pc = "done" => ck_ret[2] = caller_config[1]
          /\ PastDefaultFill =>
                \A k \in DefaultKeys :
                    /\ DictHas(heap[caller_config[1]], k)
                    /\ ~DictHas(config0, k) =>
                          DictGet(heap[caller_config[1]], k)
                              = DictGet(MergedDefaults(StaticDefaults), k)
          /\ (PastXplorFix /\ SavedXplorWithMace) =>
                DictGet(heap[caller_config[1]], SELF_CONNECTION_TYPE)
                    = <<"str", "linear">>
    /\ \A id \in DOMAIN StaticDefaults : heap[id] = StaticDefaults[id]

\* a call on a mapping saved with XPLOR and MACE and lacking default keys
\* ended in the missing-keys error
C10_Witness ==
    /\ arg_kind = "dict"
    /\ ck_pc = "error"
    /\ ck_err[1] = "AssertionError"
    /\ SavedXplorWithMace
    /\ ~DictHas(config0, SHIFT)
    /\ heap[caller_config[1]] # config0

\* ---- C9
KeyHasDenumerator(k) == \E i \in 1..Len(k) : HasDenumerator(k[i])

\* the current-name form of a key with a legacy module name
Translated(k) ==
    <<old_module_name_mapping(Head(k))>>
        \o (IF Len(k) = 1 THEN <<"">>
            ELSE [i \in 1..(Len(k) - 1) |-> ReplaceDenumerator(k[i + 1])])

\* every key with a legacy module name is stored under its current name
LegacyKeysTranslated ==
    \A i \in 1..Len(old_model_state_dict) :
        LET k == old_model_state_dict[i][1] IN
        Head(k) \in OldModuleNames =>
            /\ DictHas(new_model_state_dict, Translated(k))
            /\ ~DictHas(new_model_state_dict, k)

\* every value of the result is the value of a key of the argument that maps
\* to its key, and every key of the argument maps to a key of the result
ValuesCarriedOver ==
    /\ \A j \in 1..Len(new_model_state_dict) :
          \E i \in 1..Len(old_model_state_dict) :
              /\ MapKey(old_model_state_dict[i][1]) = new_model_state_dict[j][1]
              /\ old_model_state_dict[i][2] = new_model_state_dict[j][2]
    /\ \A i \in 1..Len(old_model_state_dict) :
          DictHas(new_model_state_dict, MapKey(old_model_state_dict[i][1]))

NoDenumeratorLeft ==
    \A j \in 1..Len(new_model_state_dict) :
        ~KeyHasDenumerator(new_model_state_dict[j][1])

\* C9: the remapping stores every key with a legacy module name under the
\* current name, leaves 'denumerator' in no key of the result, whatever its
\* module name, and carries the values over
C9_RemapFixesEveryKey ==
    map_pc = "done" =>
        /\ LegacyKeysTranslated
        /\ ValuesCarriedOver
        /\ NoDenumeratorLeft

(***************************************************************************)
(* infer_irreps_out                                                        *)
(*                                                                         *)
(* An irreps signature is a sequence of blocks <<mul, l, p>>.              *)
(***************************************************************************)
MaxL == 1
MaxBlocks == 2

Abs(n) == IF n < 0 THEN -n ELSE n
\* (-1)**l
MinusOneToThe(l) == IF l % 2 = 0 THEN 1 ELSE -1

\* the blocks of FullTensorProduct(x, operand).irreps_out, as a set of
\* <<i, j, l, p, mul>>: block i of x with block j of operand gives the
\* degrees |l1 - l2| .. l1 + l2 with parity p1 * p2 and multiplicity mul1 * mul2
ProductBlocks(x, operand) ==
    {<<i, j, l, x[i][3] * operand[j][3], x[i][1] * operand[j][1]>> :
        i \in 1..Len(x), j \in 1..Len(operand), l \in 0..(2 * MaxL)}
    \cap {b \in (1..Len(x)) \X (1..Len(operand)) \X (0..(2 * MaxL)) \X {-1, 1}
                \X (1..4) :
            /\ b[3] >= Abs(x[b[1]][2] - operand[b[2]][2])
            /\ b[3] <= x[b[1]][2] + operand[b[2]][2]}

RECURSIVE SortedIrreps(_, _)
\* the blocks of a product, merged by (l, p) and in the order of l, then p
SortedIrreps(blocks, from) ==
    IF from > 2 * (2 * MaxL + 1) THEN <<>>
    ELSE LET l == (from - 1) \div 2
             p == IF (from - 1) % 2 = 0 THEN -1 ELSE 1
             same == {b \in blocks : b[3] = l /\ b[4] = p}
             mul == SumOver([b \in same |-> b[5]], same) IN
         (IF same = {} THEN <<>> ELSE <<<<mul, l, p>>>>)
             \o SortedIrreps(blocks, from + 1)

\* FullTensorProduct(irreps_x, irreps_operand).irreps_out.simplify()
FullTensorProductSimplified(x, operand) ==
    SortedIrreps(ProductBlocks(x, operand), 1)

\* parity_mode is 'literal': the identity of two str objects, which holds
\* for equal strings only when they are one object
IsLiteral(mode, literal, one_object) == mode = literal /\ one_object

\* the loop body's decision on a block: <<>> when it is dropped, else <<elem>>
FilterBlock(block, drop, mode, fix, one_object) ==
    LET mul == block[1]
        l == block[2]
        p == block[3] IN
    IF drop # None /\ l > drop[1] THEN <<>>
    ELSE IF IsLiteral(mode, "even", one_object) /\ p = -1 THEN <<>>
    ELSE IF IsLiteral(mode, "sph", one_object) /\ p # MinusOneToThe(l) THEN <<>>
    ELSE IF fix # None /\ fix[1] # 0 THEN <<<<fix[1], l, p>>>>
    ELSE <<block>>

IrrepsBlocks == {1, 2} \X (0..MaxL) \X {-1, 1}

InitIrr ==
    /\ irreps_x \in SeqsUpTo(IrrepsBlocks, MaxBlocks)
    /\ irreps_operand \in [1..1 -> {b \in IrrepsBlocks : b[1] = 1}]
    /\ drop_l \in {None} \cup {<<n>> : n \in 0..MaxL}
    /\ parity_mode \in {"full", "even", "sph", "odd"}
    /\ fix_multiplicity \in {None, <<0>>, <<3>>}
    /\ same_object \in BOOLEAN
    /\ irreps_out = <<>>
    /\ new_irreps_elem = <<>>
    /\ irr_i = 1
    /\ irr_pc = "call"
    /\ irr_err = None
    /\ irr_ret = None

\* assert parity_mode in [...]; irreps_out = FullTensorProduct(...)...
irr_call ==
    /\ irr_pc = "call"
    /\ IF parity_mode \in {"full", "even", "sph"}
       THEN /\ irreps_out' = FullTensorProductSimplified(irreps_x, irreps_operand)
            /\ irr_pc' = "for_block"
            /\ UNCHANGED irr_err
       ELSE /\ irr_pc' = "error"
            /\ irr_err' = <<"AssertionError">>
            /\ UNCHANGED irreps_out
    /\ UNCHANGED <<irreps_x, irreps_operand, drop_l, parity_mode,
                   fix_multiplicity, same_object, new_irreps_elem, irr_i,
                   irr_ret>>
    /\ UNCHANGED notIrr

\* one pass of: for mul, (l, p) in irreps_out
irr_block ==
    /\ irr_pc = "for_block"
    /\ irr_i <= Len(irreps_out)
    /\ new_irreps_elem' =
           new_irreps_elem \o FilterBlock(irreps_out[irr_i], drop_l, parity_mode,
                                          fix_multiplicity, same_object)
    /\ irr_i' = irr_i + 1
    /\ UNCHANGED <<irreps_x, irreps_operand, drop_l, parity_mode,
                   fix_multiplicity, same_object, irreps_out, irr_pc, irr_err,
                   irr_ret>>
    /\ UNCHANGED notIrr

\* return Irreps(new_irreps_elem)
irr_return ==
    /\ irr_pc = "for_block"
    /\ irr_i > Len(irreps_out)
    /\ irr_ret' = <<new_irreps_elem>>
    /\ irr_pc' = "done"
    /\ UNCHANGED <<irreps_x, irreps_operand, drop_l, parity_mode,
                   fix_multiplicity, same_object, irreps_out, new_irreps_elem,
                   irr_i, irr_err>>
    /\ UNCHANGED notIrr

NextIrr == irr_call \/ irr_block \/ irr_return

\* the initial states: infer_irreps_out runs, the other components stay idle
StartIrr ==
    InitIrr /\ IdleAvg /\ IdlePost /\ IdleMap /\ IdleCk /\ IdleSplit

SpecIrr ==
    StartIrr /\ [][NextIrr]_vars

\* ---- C7
Returned == irr_ret[1]

\* C7: with parity_mode 'even' no returned block has parity -1, with 'sph'
\* every returned block has parity (-1)^degree, with 'full' no block is
\* dropped for its parity; any other parity_mode is an error and nothing is
\* returned
C7_ParityModes ==
    /\ irr_pc = "done" =>
          /\ parity_mode = "even" =>
                \A i \in 1..Len(Returned) : Returned[i][3] # -1
          /\ parity_mode = "sph" =>
                \A i \in 1..Len(Returned) :
                    Returned[i][3] = MinusOneToThe(Returned[i][2])
          /\ parity_mode = "full" =>
                \A i \in 1..Len(irreps_out) :
                    (drop_l = None \/ irreps_out[i][2] <= drop_l[1]) =>
                        \E j \in 1..Len(Returned) :
                            /\ Returned[j][2] = irreps_out[i][2]
                            /\ Returned[j][3] = irreps_out[i][3]
    /\ (irr_pc \in {"done", "error"} /\ parity_mode \notin {"full", "even", "sph"})
          => irr_pc = "error" /\ irr_ret = None

(***************************************************************************)
(* to_atom_graph_list                                                      *)
(***************************************************************************)
MaxSplitStructs == 2
MaxSplitAtoms == 5

\* a faulty split, for comparison: the sizes taken as the indices at which to cut
RECURSIVE SplitAtIndices(_, _)
SplitAtIndices(t, cuts) ==
    IF cuts = <<>> THEN <<>>
    ELSE <<SubSeq(t, 1, Min(Head(cuts), Len(t)))>>
             \o SplitAtIndices(SubSeq(t, Min(Head(cuts), Len(t)) + 1, Len(t)),
                               [i \in 1..(Len(cuts) - 1) |-> cuts[i + 1] - Head(cuts)])

RECURSIVE TorchSplit(_, _)
\* torch.split(t, sizes): consecutive chunks of the given sizes
TorchSplit(t, sizes) ==
    IF sizes = <<>> THEN <<>>
    ELSE <<SubSeq(t, 1, Head(sizes))>>
             \o TorchSplit(SubSeq(t, Head(sizes) + 1, Len(t)), Tail(sizes))

\* torch.unbind(t): the entries along the first dimension
TorchUnbind(t) == t

\* torch.unsqueeze(t, 0)
Unsqueeze0(t) == <<t>>

\* atom_graph_batch.to_data_list(): one record per structure, without the
\* inferred fields
ToDataList(batch) ==
    [i \in 1..Len(batch.num_atoms) |-> [num_atoms |-> batch.num_atoms[i]]]

\* a batch of structures of the given atom counts with inferred fields, every
\* entry a value of its own
MakeBatch(na, with_stress) ==
    LET k == Len(na)
        total == SumSeq(na)
        base == [num_atoms |-> na,
                 atomic_energy |-> [j \in 1..total |-> <<500 + j>>],
                 inferred_total_energy |-> [i \in 1..k |-> 100 + i],
                 inferred_force |->
                     [j \in 1..total |-> [c \in 1..3 |-> 1000 + 10 * j + c]]] IN
    IF with_stress
    THEN base @@ [inferred_stress |->
                     [i \in 1..k |-> [c \in 1..6 |-> 3000 + 10 * i + c]]]
    ELSE base

InitSplit ==
    /\ \E na \in SeqsUpTo(1..MaxSplitAtoms, MaxSplitStructs), st \in BOOLEAN :
          atom_graph_batch = MakeBatch(na, st)
    /\ is_stress = None
    /\ data_list = <<>>
    /\ atomic_energy_list = <<>>
    /\ inferred_total_energy_list = <<>>
    /\ inferred_force_list = <<>>
    /\ inferred_stress_list = <<>>
    /\ split_i = 1
    /\ split_pc = "call"

\* the statements before the loop
split_call ==
    LET indices == atom_graph_batch.num_atoms
        stress == "inferred_stress" \in DOMAIN atom_graph_batch IN
    /\ split_pc = "call"
    /\ is_stress' = <<stress>>
    /\ data_list' = ToDataList(atom_graph_batch)
    /\ atomic_energy_list' = TorchSplit(atom_graph_batch.atomic_energy, indices)
    /\ inferred_total_energy_list' =
           TorchUnbind(atom_graph_batch.inferred_total_energy)
    /\ inferred_force_list' = TorchSplit(atom_graph_batch.inferred_force, indices)
    /\ inferred_stress_list' =
           IF stress THEN TorchUnbind(atom_graph_batch.inferred_stress) ELSE <<>>
    /\ split_pc' = "for_data"
    /\ UNCHANGED <<atom_graph_batch, split_i>>
    /\ UNCHANGED notSplit

\* one pass of: for i, data in enumerate(data_list) (i counts from 1 here)
split_data ==
    LET inferred ==
            [atomic_energy |-> atomic_energy_list[split_i],
             inferred_total_energy |-> inferred_total_energy_list[split_i],
             inferred_force |-> inferred_force_list[split_i]]
        stress == IF is_stress[1]
                  THEN [inferred_stress |->
                           Unsqueeze0(inferred_stress_list[split_i])]
                  ELSE <<>> IN
    /\ split_pc = "for_data"
    /\ split_i <= Len(data_list)
    /\ data_list' = [data_list EXCEPT ![split_i] = stress @@ inferred @@ @]
    /\ split_i' = split_i + 1
    /\ UNCHANGED <<atom_graph_batch, is_stress, atomic_energy_list,
                   inferred_total_energy_list, inferred_force_list,
                   inferred_stress_list, split_pc>>
    /\ UNCHANGED notSplit

\* return data_list
split_return ==
    /\ split_pc = "for_data"
    /\ split_i > Len(data_list)
    /\ split_pc' = "done"
    /\ UNCHANGED <<atom_graph_batch, is_stress, data_list, atomic_energy_list,
                   inferred_total_energy_list, inferred_force_list,
                   inferred_stress_list, split_i>>
    /\ UNCHANGED notSplit

NextSplit == split_call \/ split_data \/ split_return

\* the initial states: to_atom_graph_list runs, the other components stay idle
StartSplit ==
    InitSplit /\ IdleAvg /\ IdlePost /\ IdleMap /\ IdleCk /\ IdleIrr

SpecSplit ==
    StartSplit /\ [][NextSplit]_vars

\* ---- C8
RowsBefore(i) == SumSeq(SubSeq(atom_graph_batch.num_atoms, 1, i - 1))

RECURSIVE ConcatField(_, _)
ConcatField(records, field) ==
    IF records = <<>> THEN <<>>
    ELSE Head(records)[field] \o ConcatField(Tail(records), field)

\* C8: the call returns one record per structure, in batch order; record i
\* holds the a_i rows of the per-atom energy and force that follow the rows
\* of the earlier structures, the i-th total energy and, when the batch has
\* a stress, the i-th stress under a leading dimension of 1; the per-atom
\* fields of the records, concatenated, are those of the batch
C8_RecordsPartitionBatch ==
    split_pc = "done" =>
        /\ Len(data_list) = Len(atom_graph_batch.num_atoms)
        /\ \A i \in 1..Len(data_list) :
              LET a == atom_graph_batch.num_atoms[i]
                  d == data_list[i] IN
              /\ Len(d.atomic_energy) = a
              /\ Len(d.inferred_force) = a
              /\ \A r \in 1..a :
                    /\ d.atomic_energy[r]
                           = atom_graph_batch.atomic_energy[RowsBefore(i) + r]
                    /\ d.inferred_force[r]
                           = atom_graph_batch.inferred_force[RowsBefore(i) + r]
              /\ d.inferred_total_energy
                     = atom_graph_batch.inferred_total_energy[i]
              /\ IF "inferred_stress" \in DOMAIN atom_graph_batch
                 THEN d.inferred_stress = <<atom_graph_batch.inferred_stress[i]>>
                 ELSE "inferred_stress" \notin DOMAIN d
        /\ ConcatField(data_list, "atomic_energy") = atom_graph_batch.atomic_energy
        /\ ConcatField(data_list, "inferred_force") = atom_graph_batch.inferred_force

\* the batch of atom counts [3, 5], with a stress, has been split
C8_Witness ==
    /\ split_pc = "done"
    /\ atom_graph_batch.num_atoms = <<3, 5>>
    /\ "inferred_stress" \in DOMAIN atom_graph_batch
    /\ Len(data_list[1].inferred_force) = 3
    /\ Len(data_list[2].inferred_force) = 5

====
